---- MODULE Spec2Model ----
(***************************************************************************)
(* Shape inference of the stencil dialect                                  *)
(* (lib/Dialect/Stencil/ShapeInferencePass.cpp).                           *)
(*                                                                         *)
(* The entry block of a stencil program is a sequence of operations.  An   *)
(* operation is a stencil.apply (it implements ShapeInference and          *)
(* ShapedOp), a stencil.store (ShapedOp only: its bounds are attributes of *)
(* the program) or an operation of another dialect that reads a temporary  *)
(* (neither interface).  A value is a result of an apply operation.        *)
(* The pass first builds the AccessExtents analysis and then walks the     *)
(* entry block in reverse, calling inferShapes on every ShapeInference     *)
(* operation.                                                              *)
(***************************************************************************)
EXTENDS Integers, Sequences, FiniteSets, TLC

\* ------------------------------------------------------------------ bounds

\* Operations in the entry block.
NumOps == 4
\* Access offsets are drawn from -MaxOff..MaxOff in every dimension.
MaxOff == 1
\* Results of one apply operation.
MaxRes == 2
\* Operands (uses of values) of all operations of one program together: every
\* operation but the first may read one value.
MaxUses == NumOps - 1
\* Access operations in all apply bodies of one program together: one in every
\* inner operation of a chain.
MaxAcc == NumOps - 2

\* ----------------------------------------------------------------- helpers

min[a \in Int, b \in Int] == IF a < b THEN a ELSE b

max[a \in Int, b \in Int] == IF a > b THEN a ELSE b

plus[a \in Int, b \in Int] == a + b

minus[a \in Int, b \in Int] == a - b

\* Index applyFunElementWise(x, y, fun): fun applied componentwise; the result
\* has the size of x.
applyFunElementWise(x, y, fun) == [i \in 1..Len(x) |-> fun[x[i], y[i]]]

\* The lambda of line 69.
unrollAdjust[x \in Int, y \in Int] == x - y + 1

\* ------------------------------------------------------------------ values

\* The value that is result r of operation i.
ValueId(i, r) == (i - 1) * MaxRes + r

\* getDefiningOp of a value.
DefOp(v) == ((v - 1) \div MaxRes) + 1

\* The result number of a value.
ResNo(v) == ((v - 1) % MaxRes) + 1

\* Every value an operation of the block may define.
Vals == 1..(NumOps * MaxRes)

\* --------------------------------------------------------------- programs

\* Index values of rank r with components in S.
Indexes(r, S) == [1..r -> S]

\* The offset of a stencil.access in a body of rank r.
Offsets(r) == Indexes(r, (0 - MaxOff)..MaxOff)

\* The unroll attribute of stencil.return: absent (<<>>), or a factor per
\* dimension, 2 in at least one.
Unrolls(r) == {<<>>} \cup (Indexes(r, {1, 2}) \ {[i \in 1..r |-> 1]})

\* The lb and ub attributes of a stencil.store of rank r.
StoreBounds(r) == {[lb |-> [i \in 1..r |-> l], ub |-> [i \in 1..r |-> l + 2]] : l \in {-1, 0}}

\* Bounds of a store of another rank than r.
OddStoreBounds(r) == {[lb |-> [i \in 1..(r + 1) |-> 0], ub |-> [i \in 1..(r + 1) |-> 2]]}

\* A stencil.store of value v.
StoreOp(v, b) ==
  [kind |-> "store", operands |-> <<v>>, nres |-> 0, accesses |-> <<>>,
   unroll |-> <<>>, lb |-> b.lb, ub |-> b.ub]

\* An operation that reads value v and implements neither interface.
OtherOp(v) ==
  [kind |-> "other", operands |-> <<v>>, nres |-> 0, accesses |-> <<>>,
   unroll |-> <<>>, lb |-> <<>>, ub |-> <<>>]

\* A stencil.apply: its operands, the stencil.access operations of its body in
\* walk order (each reads body argument arg at offset), the unroll attribute
\* of its stencil.return, and its number of results.  Its lb and ub
\* attributes are absent before shape inference.
ApplyOp(opnds, accs, unr, n) ==
  [kind |-> "apply", operands |-> opnds, nres |-> n, accesses |-> accs,
   unroll |-> unr, lb |-> <<>>, ub |-> <<>>]

\* Sequences over S of length k1 to k2.
SeqsOfLen(S, k1, k2) == UNION {[1..k -> S] : k \in k1..k2}

RECURSIVE SumLen(_, _)
\* The total length of field f (operands or accesses) over the operations of p.
SumLen(p, f) ==
  IF p = <<>> THEN 0
  ELSE Len(IF f = "operands" THEN Head(p).operands ELSE Head(p).accesses)
       + SumLen(Tail(p), f)

\* The values the operation after p may read: with all, every result
\* defined in p; without, the results of the last stencil.apply of p.
Readable(p, all) ==
  LET A == {i \in 1..Len(p) : p[i].kind = "apply"}
      R == IF all \/ A = {} THEN A ELSE {CHOOSE k \in A : \A m \in A : m <= k}
  IN  UNION {{ValueId(i, r) : r \in 1..p[i].nres} : i \in R}

\* Body arguments that no stencil.access of the body reads.
Unaccessed(opnds, accs) == {i \in 1..Len(opnds) : \A k \in 1..Len(accs) : accs[k].arg # i}

\* The operations that may follow the operations p of a program of rank r:
\* the program has at most MaxUses + 1 - r operands and MaxAcc accesses,
\* an apply at most two operands, and at most one apply several results.  Without total, the
\* program is a pipeline (each operation reads results of the nearest
\* stencil.apply before it), an apply with an unroll attribute accesses all
\* its operands, and a store may have another rank than the program.
NextOps(p, r, total) ==
  LET V == Readable(p, total)
      u == min[MaxUses + 1 - r - SumLen(p, "operands"), IF V = {} THEN 0 ELSE 2]
      a == MaxAcc - SumLen(p, "accesses")
      N == IF \E i \in 1..Len(p) : p[i].nres > 1 THEN {1} ELSE 1..MaxRes
  IN  {StoreOp(v, b) : v \in (IF u >= 1 THEN V ELSE {}),
                          b \in StoreBounds(r) \cup (IF total THEN {} ELSE OddStoreBounds(r))}
      \cup {OtherOp(v) : v \in (IF u >= 1 THEN V ELSE {})}
      \cup {ApplyOp(<<>>, <<>>, <<>>, n) : n \in N}
      \cup UNION {
             UNION {
               {ApplyOp(opnds, accs, unr, n) :
                  unr \in {x \in Unrolls(r) :
                             total \/ x = <<>> \/ Unaccessed(opnds, accs) = {}},
                  n \in N}
               : accs \in SeqsOfLen([arg : 1..Len(opnds), offset : Offsets(r)], 0, a)}
             : opnds \in SeqsOfLen(V, 1, u)}

\* ------------------------------------------------------------------- state

VARIABLES
  prog,      \* the operations of the entry block, in program order
  lb, ub,    \* per operation: its lb and ub attributes (<<>>: absent)
  resType,   \* per operation: the types of its results
  argType,   \* per operation: the declared types of its operands
  extents,   \* AccessExtents::extents, per operation and value
  pc,        \* "start", "run" (the reverse walk), "done" or "failed"
  cur,       \* the operation the reverse iterator points at (0: rend)
  err        \* the diagnostic emitted: its kind and the operation it names

vars == <<prog, lb, ub, resType, argType, extents, pc, cur, err>>

Ops == 1..Len(prog)

\* isa<ShapeInference>: stencil.apply.
IsShapeInference(o) == o.kind = "apply"

\* isa<ShapedOp>: stencil.apply and stencil.store.
IsShaped(o) == o.kind \in {"apply", "store"}

\* The element type of result r of operation i.
ElemOf(i, r) == IF (i + r) % 2 = 0 THEN "f64" ELSE "f32"

\* A TempType with dynamic shape.
DynType(e) == [elem |-> e, dynamic |-> TRUE, shape |-> <<>>]

\* TempType::get(context, elementType, shape).
TempTypeGet(e, shape) == [elem |-> e, dynamic |-> FALSE, shape |-> shape]

\* struct Extent, and the entry of a pair the map does not hold.
NoExtent == [present |-> FALSE, negative |-> <<>>, positive |-> <<>>]

\* --------------------------------------------------------- AccessExtents

\* walkAccess in which a later access overwrites the positive extent.
walkAccessLastWins(o, m, acc) ==
  LET v == o.operands[acc.arg]
  IN  IF ~m[v].present
      THEN [m EXCEPT ![v] = [present |-> TRUE, negative |-> acc.offset,
                             positive |-> acc.offset]]
      ELSE [m EXCEPT ![v].negative = applyFunElementWise(@, acc.offset, min),
                     ![v].positive = acc.offset]

\* The walk callback of one stencil.access acc of apply operation o: m is
\* extents[operation], argToOperand[argument] is o.operands[acc.arg].
walkAccess(o, m, acc) ==
  LET v == o.operands[acc.arg]
  IN  IF ~m[v].present
      THEN [m EXCEPT ![v] = [present |-> TRUE, negative |-> acc.offset,
                             positive |-> acc.offset]]
      ELSE [m EXCEPT ![v].negative = applyFunElementWise(@, acc.offset, min),
                     ![v].positive = applyFunElementWise(@, acc.offset, max)]

RECURSIVE walkAccesses(_, _, _)
\* applyOp.walk over the access operations k.. of the body, in walk order.
walkAccesses(o, m, k) ==
  IF k > Len(o.accesses) THEN m
  ELSE walkAccesses(o, walkAccess(o, m, o.accesses[k]), k + 1)

\* One iteration of the unroll loop: operator[] inserts a default Extent
\* (two empty indexes) for an operand the map does not hold.
unrollOperand(o, m, i) ==
  LET v == o.operands[i]
  IN  [m EXCEPT ![v] = [present |-> TRUE, negative |-> @.negative,
                        positive |-> applyFunElementWise(@.positive, o.unroll,
                                                         unrollAdjust)]]

RECURSIVE unrollOperands(_, _, _)
\* The loop over the operand positions i.. of the apply operation.
unrollOperands(o, m, i) ==
  IF i > Len(o.operands) THEN m
  ELSE unrollOperands(o, unrollOperand(o, m, i), i + 1)

\* The walk callback of one operation: the extents of its operands.
applyExtents(o) ==
  LET none == [v \in Vals |-> NoExtent]
  IN  IF o.kind # "apply" THEN none
      ELSE LET m == walkAccesses(o, none, 1)
           IN  IF o.unroll # <<>> THEN unrollOperands(o, m, 1) ELSE m

\* The constructor: op->walk over the apply operations of program p.
AccessExtents(p) == [j \in 1..Len(p) |-> applyExtents(p[j])]

\* lookupExtent that finds no entry.
lookupExtentNever(ext, j, v) == NoExtent

\* lookupExtent(op, value): nullptr is an Extent that is not present.
lookupExtent(ext, j, v) == IF ext[j][v].present THEN ext[j][v] ELSE NoExtent

\* ----------------------------------------------------------------- driver

\* result.getUses(): the uses of value v, operand k of operation owner.
UsesOf(v) ==
  UNION {{[owner |-> j, k |-> k, value |-> v] :
            k \in {k \in 1..Len(prog[j].operands) : prog[j].operands[k] = v}} : j \in Ops}

\* The orders in which a use list may enumerate the uses S.
Perms(S) ==
  {f \in [1..Cardinality(S) -> S] :
     \A a, b \in 1..Cardinality(S) : a # b => f[a] # f[b]}

RECURSIVE UseOrders(_, _)
\* The orders in which the loops of inferShapes may visit the uses of the
\* results r.. of operation i: result by result, the uses of one result in
\* use-list order.
UseOrders(i, r) ==
  IF r > prog[i].nres THEN {<<>>}
  ELSE {a \o b : a \in Perms(UsesOf(ValueId(i, r))), b \in UseOrders(i, r + 1)}

\* ShapedOp::getLB, getUB and getRank of operation j.
getLB(j) == lb[j]

getUB(j) == ub[j]

getRank(j) == Len(lb[j])

\* useBounds with the negative extent added to both bounds.
useBoundsNegativeTwice(use, ext) ==
  LET e == lookupExtent(ext, use.owner, use.value)
  IN  IF e.present
      THEN [lb |-> applyFunElementWise(getLB(use.owner), e.negative, plus),
            ub |-> applyFunElementWise(getUB(use.owner), e.negative, plus)]
      ELSE [lb |-> getLB(use.owner), ub |-> getUB(use.owner)]

\* The bounds the use's owner imposes: its own, extended by the extent of
\* the used value if extent info exists.
useBounds(use, ext) ==
  LET e == lookupExtent(ext, use.owner, use.value)
  IN  IF e.present
      THEN [lb |-> applyFunElementWise(getLB(use.owner), e.negative, plus),
            ub |-> applyFunElementWise(getUB(use.owner), e.positive, plus)]
      ELSE [lb |-> getLB(use.owner), ub |-> getUB(use.owner)]

\* extendBounds in which every use overwrites the bounds of the uses before.
extendBoundsOverwrite(use, ext, acc) ==
  IF IsShaped(prog[use.owner])
  THEN LET b == useBounds(use, ext)
       IN  IF acc.lower = <<>> /\ acc.upper = <<>>
           THEN [acc EXCEPT !.lower = b.lb, !.upper = b.ub]
           ELSE IF Len(acc.lower) # getRank(use.owner) \/ Len(acc.upper) # getRank(use.owner)
                THEN [acc EXCEPT !.ok = FALSE, !.errOp = use.owner]
                ELSE [acc EXCEPT !.lower = b.lb, !.upper = b.ub]
  ELSE acc

\* extendBounds(op, use, extents, lower, upper): acc holds lower and upper;
\* the result holds them updated, or the failure and the operation the
\* error is emitted on.
extendBounds(use, ext, acc) ==
  IF IsShaped(prog[use.owner])
  THEN LET b == useBounds(use, ext)
       IN  IF acc.lower = <<>> /\ acc.upper = <<>>
           THEN [acc EXCEPT !.lower = b.lb, !.upper = b.ub]
           ELSE IF Len(acc.lower) # getRank(use.owner) \/ Len(acc.upper) # getRank(use.owner)
                THEN [acc EXCEPT !.ok = FALSE, !.errOp = use.owner]
                ELSE [acc EXCEPT !.lower = applyFunElementWise(@, b.lb, min),
                                 !.upper = applyFunElementWise(@, b.ub, max)]
  ELSE acc

RECURSIVE foldUses(_, _, _, _)
\* The loops over the results and their uses, from use k of the order us:
\* they return at the first failure.
foldUses(us, ext, acc, k) ==
  IF k > Len(us) \/ ~acc.ok THEN acc
  ELSE foldUses(us, ext, extendBounds(us[k], ext, acc), k + 1)

\* inferBounds that rejects only negative shape entries.
inferBoundsAllowZero(i, us, ext) ==
  LET acc == foldUses(us, ext, [ok |-> TRUE, lower |-> <<>>, upper |-> <<>>, errOp |-> 0], 1)
      shape == applyFunElementWise(acc.upper, acc.lower, minus)
  IN  IF ~acc.ok
      THEN [ok |-> FALSE, kind |-> "rank", op |-> acc.errOp, lb |-> <<>>, ub |-> <<>>, shape |-> <<>>]
      ELSE IF shape = <<>>
      THEN [ok |-> FALSE, kind |-> "size", op |-> i, lb |-> <<>>, ub |-> <<>>, shape |-> <<>>]
      ELSE IF \E d \in 1..Len(shape) : shape[d] < 0
      THEN [ok |-> FALSE, kind |-> "entries", op |-> i, lb |-> <<>>, ub |-> <<>>, shape |-> <<>>]
      ELSE [ok |-> TRUE, kind |-> "none", op |-> 0, lb |-> acc.lower, ub |-> acc.upper, shape |-> shape]

\* inferShapes up to the commit: the bounds and the shape of operation i,
\* or the error emitted.
inferBounds(i, us, ext) ==
  LET acc == foldUses(us, ext, [ok |-> TRUE, lower |-> <<>>, upper |-> <<>>, errOp |-> 0], 1)
      shape == applyFunElementWise(acc.upper, acc.lower, minus)
  IN  IF ~acc.ok
      THEN [ok |-> FALSE, kind |-> "rank", op |-> acc.errOp, lb |-> <<>>, ub |-> <<>>, shape |-> <<>>]
      ELSE IF shape = <<>>
      THEN [ok |-> FALSE, kind |-> "size", op |-> i, lb |-> <<>>, ub |-> <<>>, shape |-> <<>>]
      ELSE IF \E d \in 1..Len(shape) : shape[d] < 1
      THEN [ok |-> FALSE, kind |-> "entries", op |-> i, lb |-> <<>>, ub |-> <<>>, shape |-> <<>>]
      ELSE [ok |-> TRUE, kind |-> "none", op |-> 0, lb |-> acc.lower, ub |-> acc.upper, shape |-> shape]

\* newTypes that gives every result the element type of the first.
newTypesFirstElem(i, shape) ==
  [r \in 1..prog[i].nres |-> TempTypeGet(resType[i][1].elem, shape)]

\* The new types of the results of operation i: the element type kept, the
\* shape set.
newTypes(i, shape) ==
  [r \in 1..prog[i].nres |-> TempTypeGet(resType[i][r].elem, shape)]

\* ShapedOp::setOperandType(operand, type) on operation j: the declared
\* type of the operand is set.
setOperandType(at, j, v, ty) ==
  [at EXCEPT ![j] = [k \in 1..Len(prog[j].operands) |->
                       IF prog[j].operands[k] = v THEN ty ELSE @[k]]]

RECURSIVE propagateTypes(_, _, _, _)
\* The second loop over the results and their uses: the owners that are
\* shaped get the new type of the value they use.
propagateTypes(at, us, types, k) ==
  IF k > Len(us) THEN at
  ELSE propagateTypes(IF IsShaped(prog[us[k].owner])
                      THEN setOperandType(at, us[k].owner, us[k].value,
                                          types[ResNo(us[k].value)])
                      ELSE at,
                      us, types, k + 1)

\* ---------------------------------------------------------------- actions

\* rbegin one operation early.
rbeginSkipLast(p) == Len(p) - 1

\* entryBlock.rbegin(): the last operation of the block.
rbegin(p) == Len(p)

\* getAnalysis<AccessExtents>(): the analysis is constructed, and the walk
\* starts at rbegin.
Analyse ==
  /\ pc = "start"
  /\ extents' = AccessExtents(prog)
  /\ cur' = rbegin(prog)
  /\ pc' = "run"
  /\ UNCHANGED <<prog, lb, ub, resType, argType, err>>

\* ++op, and the end of the loop at rend.
Advance ==
  /\ cur' = cur - 1
  /\ pc' = IF cur = 1 THEN "done" ELSE "run"

\* inferShapes from setOpShape on: the bounds of operation cur are set, its
\* results get their types and the shaped owners of their uses the types
\* of their operands.
Commit(us, r) ==
  /\ lb' = [lb EXCEPT ![cur] = r.lb]
  /\ ub' = [ub EXCEPT ![cur] = r.ub]
  /\ resType' = [resType EXCEPT ![cur] = newTypes(cur, r.shape)]
  /\ argType' = propagateTypes(argType, us, newTypes(cur, r.shape), 1)
  /\ UNCHANGED err

\* Fail without the return: the error is emitted and the loop goes on.
FailContinue(r) ==
  /\ cur' = cur - 1
  /\ pc' = IF cur = 1 THEN "done" ELSE "run"
  /\ err' = [kind |-> r.kind, op |-> r.op]
  /\ UNCHANGED <<lb, ub, resType, argType>>

\* inferShapes failed with the error r: signalPassFailure and return.
Fail(r) ==
  /\ pc' = "failed"
  /\ err' = [kind |-> r.kind, op |-> r.op]
  /\ UNCHANGED <<lb, ub, resType, argType, cur>>

\* One iteration of the reverse loop of runOnFunction: inferShapes on the
\* operation if it is a ShapeInference.
Visit ==
  /\ pc = "run"
  /\ cur >= 1
  /\ IF IsShapeInference(prog[cur])
     THEN \E us \in UseOrders(cur, 1) :
            LET r == inferBounds(cur, us, extents)
            IN  IF r.ok THEN Commit(us, r) /\ Advance ELSE Fail(r)
     ELSE Advance /\ UNCHANGED <<lb, ub, resType, argType, err>>
  /\ UNCHANGED <<prog, extents>>

\* ----------------------------------------------------------- specifications

RECURSIVE Gen(_, _, _, _)
\* prog is a program of rank r: p followed by n more operations.
Gen(p, n, r, total) ==
  IF n = 0 THEN prog = p
  ELSE \E o \in NextOps(p, r, total) : Gen(Append(p, o), n - 1, r, total)

\* The shaped users of the results of operation i.
ShapedUsers(p, i) ==
  {j \in 1..Len(p) : IsShaped(p[j]) /\ \E k \in 1..Len(p[j].operands) : DefOp(p[j].operands[k]) = i}

\* In a program of rank r no operation gets bounds of another rank: the
\* producer read by a store of another rank is read by a shaped operation
\* of rank r as well, so that its inference fails on the rank.
WellFormed(p, r) ==
  \A j \in 1..Len(p) :
     (p[j].kind = "store" /\ Len(p[j].lb) # r) =>
        \E u \in ShapedUsers(p, DefOp(p[j].operands[1])) :
           p[u].kind = "apply" \/ Len(p[u].lb) = r

\* The state before the pass runs on program prog.
Start ==
  /\ lb = [j \in Ops |-> prog[j].lb]
  /\ ub = [j \in Ops |-> prog[j].ub]
  /\ resType = [j \in Ops |-> [r \in 1..prog[j].nres |-> DynType(ElemOf(j, r))]]
  /\ argType = [j \in Ops |-> [k \in 1..Len(prog[j].operands) |->
                   DynType(ElemOf(DefOp(prog[j].operands[k]), ResNo(prog[j].operands[k])))]]
  /\ extents = [j \in Ops |-> [v \in Vals |-> NoExtent]]
  /\ pc = "start"
  /\ cur = 0
  /\ err = [kind |-> "none", op |-> 0]

\* The pass on the pipelines of rank r = 1 and 2 of at most NumOps + 1 - r
\* operations.
Init ==
  /\ \E r \in 1..2 : \E n \in 1..(NumOps + 1 - r) :
        Gen(<<>>, n, r, FALSE) /\ WellFormed(prog, r)
  /\ Start

Next == Analyse \/ Visit

Spec == Init /\ [][Next]_vars

\* The analysis alone, on the programs of rank r = 1 and 2 of at most
\* NumOps - r operations.
InitExt ==
  /\ \E r \in 1..2 : \E n \in 1..(NumOps - r) : Gen(<<>>, n, r, TRUE)
  /\ Start

NextExt == Analyse

SpecExt == InitExt /\ [][NextExt]_vars

\* ------------------------------------------------------------ properties

\* Operation i has been finalized: inferShapes has set its bounds.
Finalized(i) == IsShapeInference(prog[i]) /\ lb[i] # <<>>

\* The reverse walk has called inferShapes on operation i.
Visited(i) ==
  /\ IsShapeInference(prog[i])
  /\ \/ pc \in {"run", "done"} /\ i > cur
     \/ pc = "failed" /\ i >= cur

\* The uses of all results of operation i, and those whose owner owns bounds.
AllUses(i) == UNION {UsesOf(ValueId(i, r)) : r \in 1..prog[i].nres}

ShapedUses(i) == {u \in AllUses(i) : IsShaped(prog[u.owner])}

\* The extent the map holds for use u in dimension d, 0 if it holds none.
Neg(u, d) ==
  IF extents[u.owner][u.value].present THEN extents[u.owner][u.value].negative[d] ELSE 0

Pos(u, d) ==
  IF extents[u.owner][u.value].present THEN extents[u.owner][u.value].positive[d] ELSE 0

\* C2: an operation whose results have exactly one use, by an operation
\* that owns bounds, is finalized with that operation's bounds widened by
\* the extent of the use: lb = lb_use + negative, ub = ub_use + positive in
\* every dimension.
C2_BoundWidening ==
  \A i \in Ops :
     (Finalized(i) /\ Cardinality(AllUses(i)) = 1 /\ ShapedUses(i) # {}) =>
        \A u \in ShapedUses(i) :
           /\ Len(lb[i]) = Len(lb[u.owner])
           /\ Len(ub[i]) = Len(ub[u.owner])
           /\ \A d \in 1..Len(lb[i]) :
                 /\ lb[i][d] = lb[u.owner][d] + Neg(u, d)
                 /\ ub[i][d] = ub[u.owner][d] + Pos(u, d)

\* A producer read once, at offsets [-1,0] and [1,0], by a consumer with
\* bounds [0,0] and [2,2], is finalized with bounds [-1,0] and [3,2] and
\* shape [4,2].
C2_Witness ==
  \E i \in Ops :
     /\ Finalized(i)
     /\ Cardinality(AllUses(i)) = 1
     /\ \E u \in ShapedUses(i) :
           /\ lb[u.owner] = <<0, 0>> /\ ub[u.owner] = <<2, 2>>
           /\ extents[u.owner][u.value].present
           /\ extents[u.owner][u.value].negative = <<-1, 0>>
           /\ extents[u.owner][u.value].positive = <<1, 0>>
     /\ lb[i] = <<-1, 0>> /\ ub[i] = <<3, 2>>
     /\ resType[i][1].shape = <<4, 2>>

\* The least and the greatest element of a nonempty set of integers.
SetMin(S) == CHOOSE x \in S : \A y \in S : x <= y

SetMax(S) == CHOOSE x \in S : \A y \in S : x >= y

\* The bounds use u asks of the value it reads, in dimension d.
UseLb(u, d) == lb[u.owner][d] + Neg(u, d)

UseUb(u, d) == ub[u.owner][d] + Pos(u, d)

\* Every ShapeInference operation that reads a result of a finalized
\* operation is finalized itself.
ConsumersFinalized ==
  \A a \in Ops :
     Finalized(a) =>
        \A u \in AllUses(a) : IsShapeInference(prog[u.owner]) => Finalized(u.owner)

\* The bounds of operation a are those of the owner of w, moved by the
\* extents of the uses w and u, in dimension d.
ChainLb(a, u, w, d) == lb[a][d] = lb[w.owner][d] + Neg(w, d) + Neg(u, d)

ChainUb(a, u, w, d) == ub[a][d] = ub[w.owner][d] + Pos(w, d) + Pos(u, d)

\* The statement of C1 for every chain A -> B -> C, B the owner of a use u
\* of A and C the owner of a use w of B: the bounds of A are those of C
\* moved by the extents along the chain.
C1_AnyChain ==
  /\ ConsumersFinalized
  /\ \A a \in Ops :
        Finalized(a) =>
           \A u \in AllUses(a) :
              Finalized(u.owner) =>
                 \A w \in ShapedUses(u.owner) :
                    \A d \in 1..Len(lb[a]) :
                       ChainLb(a, u, w, d) /\ ChainUb(a, u, w, d)

\* C1: when an operation is finalized, every ShapeInference operation that
\* reads its results has been finalized before.  For a chain in which B
\* reads A and C reads B, the bounds of A contain the bounds of C moved by
\* the extents of C on B and of B on A (an absent extent counts 0), and are
\* equal to them if that use is the only use of A's results and C's use the
\* only use of B's results.
C1_SingleUseChain ==
  /\ ConsumersFinalized
  /\ \A a \in Ops :
        Finalized(a) =>
           \A u \in AllUses(a) :
              Finalized(u.owner) =>
                 \A w \in ShapedUses(u.owner) :
                    \A d \in 1..Len(lb[a]) :
                       /\ lb[a][d] <= lb[w.owner][d] + Neg(w, d) + Neg(u, d)
                       /\ ub[a][d] >= ub[w.owner][d] + Pos(w, d) + Pos(u, d)
                       /\ (AllUses(a) = {u} /\ AllUses(u.owner) = {w}) =>
                             ChainLb(a, u, w, d) /\ ChainUb(a, u, w, d)

\* A chain of three apply operations, C reading B at [1] and B reading A at
\* [-1], each the only use, all finalized.
C1_Witness ==
  \E a, b, c \in Ops :
     /\ Finalized(a) /\ Finalized(b) /\ Finalized(c)
     /\ \E u \in AllUses(a) : \E w \in AllUses(b) :
           /\ u.owner = b /\ w.owner = c
           /\ AllUses(a) = {u} /\ AllUses(b) = {w}
           /\ extents[c][w.value].present /\ extents[c][w.value].negative = <<1>>
           /\ extents[b][u.value].present /\ extents[b][u.value].negative = <<-1>>
           /\ lb[a] = lb[c] /\ ub[a] = ub[c]

\* C3: the bounds of a finalized operation are the componentwise minimum of
\* the widened lower bounds and the componentwise maximum of the widened
\* upper bounds of all uses of its results by operations that own bounds;
\* if two such uses have bounds of different rank, inference fails with the
\* rank error emitted on a using operation, and the bounds are not set.
C3_MultiUseMerge ==
  \A i \in Ops :
     /\ Finalized(i) =>
           /\ ShapedUses(i) # {}
           /\ \A u \in ShapedUses(i) :
                 Len(lb[u.owner]) = Len(lb[i]) /\ Len(ub[u.owner]) = Len(ub[i])
           /\ \A d \in 1..Len(lb[i]) :
                 /\ lb[i][d] = SetMin({UseLb(u, d) : u \in ShapedUses(i)})
                 /\ ub[i][d] = SetMax({UseUb(u, d) : u \in ShapedUses(i)})
     /\ (Visited(i) /\ \E u, w \in ShapedUses(i) : Len(lb[u.owner]) # Len(lb[w.owner])) =>
           /\ pc = "failed" /\ cur = i
           /\ err.kind = "rank"
           /\ err.op \in {u.owner : u \in ShapedUses(i)}
           /\ lb[i] = <<>> /\ ub[i] = <<>>

\* An operation finalized with the lower bound of one use and the upper
\* bound of another, neither use giving both.
C3_Witness ==
  \E i \in Ops :
     /\ Finalized(i)
     /\ \E u, w \in ShapedUses(i) :
           /\ UseLb(u, 1) < UseLb(w, 1)
           /\ UseUb(u, 1) < UseUb(w, 1)
           /\ lb[i][1] = UseLb(u, 1)
           /\ ub[i][1] = UseUb(w, 1)

\* The hull of the uses of operation i has an entry below 1.
DegenerateHull(i) ==
  /\ ShapedUses(i) # {}
  /\ \A u, w \in ShapedUses(i) : Len(lb[u.owner]) = Len(lb[w.owner])
  /\ \E u \in ShapedUses(i) : \E d \in 1..Len(lb[u.owner]) :
        SetMax({UseUb(w, d) : w \in ShapedUses(i)})
          - SetMin({UseLb(w, d) : w \in ShapedUses(i)}) < 1

\* Inference has failed on operation i with an error of kind k, emitted on i.
FailedAt(i, k) ==
  /\ pc = "failed" /\ cur = i
  /\ err = [kind |-> k, op |-> i]
  /\ lb[i] = <<>> /\ ub[i] = <<>>

\* C4: a finalized operation has bounds of equal, nonzero rank, the shape
\* ub - lb has every entry at least 1 and is the (static) shape of every
\* result; an operation that is not finalized has no bounds and dynamic
\* result types.  Inference on an operation without a use by an operation
\* that owns bounds fails ("non-zero size"), and so does inference on an
\* operation whose shape would have an entry below 1 ("non-zero entries").
C4_ShapeNonDegenerate ==
  \A i \in Ops :
     IsShapeInference(prog[i]) =>
        /\ Finalized(i) =>
              /\ Len(lb[i]) >= 1 /\ Len(ub[i]) = Len(lb[i])
              /\ \A d \in 1..Len(lb[i]) : ub[i][d] - lb[i][d] >= 1
              /\ \A r \in 1..prog[i].nres :
                    /\ ~resType[i][r].dynamic
                    /\ resType[i][r].shape = [d \in 1..Len(lb[i]) |-> ub[i][d] - lb[i][d]]
        /\ ~Finalized(i) =>
              /\ ub[i] = <<>>
              /\ \A r \in 1..prog[i].nres : resType[i][r].dynamic
        /\ (Visited(i) /\ ShapedUses(i) = {}) => FailedAt(i, "size")
        /\ (Visited(i) /\ DegenerateHull(i)) => FailedAt(i, "entries")

\* Inference is rejected on an operation whose shape would have an entry
\* that is exactly 0, after another operation has been finalized.
C4_Witness ==
  /\ pc = "failed" /\ err.kind = "entries"
  /\ \E u \in ShapedUses(cur) : \E d \in 1..Len(lb[u.owner]) :
        SetMax({UseUb(w, d) : w \in ShapedUses(cur)})
          - SetMin({UseLb(w, d) : w \in ShapedUses(cur)}) = 0
  /\ \E j \in Ops : Finalized(j)

\* C5: when inferShapes fails the pass stops at once: the failing step
\* changes no bounds, no result type and no operand type and leaves the
\* iterator where it is, the pass is failed exactly when an error has been
\* emitted, and no step follows a failure.
C5_FailureSemantics ==
  /\ [](pc = "failed" <=> err.kind # "none")
  /\ [][/\ pc # "failed"
        /\ err.kind = "none"
        /\ err'.kind # "none" =>
              /\ pc = "run" /\ pc' = "failed"
              /\ err'.kind \in {"rank", "size", "entries"}
              /\ cur' = cur
              /\ lb' = lb /\ ub' = ub
              /\ resType' = resType /\ argType' = argType]_vars

\* The pass has failed on an operation after finalizing a later one, with
\* an earlier ShapeInference operation left unprocessed.
C5_Witness ==
  /\ pc = "failed"
  /\ \E j \in Ops : j > cur /\ Finalized(j)
  /\ \E j \in Ops : j < cur /\ IsShapeInference(prog[j]) /\ lb[j] = <<>>
  /\ lb[cur] = <<>> /\ \A r \in 1..prog[cur].nres : resType[cur][r].dynamic

\* C9: every result of a finalized operation has a static type with the
\* element type it had before and the shape ub - lb, and every operation
\* that owns bounds and uses such a result declares that type for the
\* operand.
C9_TypeConsistency ==
  \A i \in Ops :
     Finalized(i) =>
        \A r \in 1..prog[i].nres :
           /\ resType[i][r] =
                 [elem |-> ElemOf(i, r), dynamic |-> FALSE,
                  shape |-> [d \in 1..Len(lb[i]) |-> ub[i][d] - lb[i][d]]]
           /\ \A u \in UsesOf(ValueId(i, r)) :
                 IsShaped(prog[u.owner]) => argType[u.owner][u.k] = resType[i][r]

\* A successful pass over a program with an operation of two results of
\* different element types, both used by operations that own bounds.
C9_Witness ==
  /\ pc = "done"
  /\ \E i \in Ops :
        /\ Finalized(i)
        /\ prog[i].nres = 2
        /\ resType[i][1].elem # resType[i][2].elem
        /\ resType[i][1].shape = resType[i][2].shape
        /\ \A r \in 1..2 : \E u \in UsesOf(ValueId(i, r)) :
              IsShaped(prog[u.owner]) /\ argType[u.owner][u.k] = resType[i][r]

\* C10: the walk starts at the last operation and moves one operation
\* towards the front in every step; the bounds and the result types of an
\* operation change only in the step that visits it, only if it is a
\* ShapeInference operation that has none yet; the walk never changes the
\* program or the extent map; and after a successful pass every
\* ShapeInference operation is finalized.
C10_WriteOnce ==
  /\ [](pc = "done" => \A i \in Ops : IsShapeInference(prog[i]) => Finalized(i))
  /\ [][/\ pc = "start" =>
              /\ cur' = Len(prog)
              /\ lb' = lb /\ ub' = ub /\ resType' = resType /\ argType' = argType
        /\ pc = "run" =>
              /\ extents' = extents /\ prog' = prog
              /\ \/ cur' = cur - 1 /\ pc' \in {"run", "done"}
                 \/ cur' = cur /\ pc' = "failed"
        /\ \A i \in Ops :
              (lb'[i] # lb[i] \/ ub'[i] # ub[i] \/ resType'[i] # resType[i]) =>
                 /\ pc = "run" /\ i = cur
                 /\ IsShapeInference(prog[i])
                 /\ lb[i] = <<>> /\ ub[i] = <<>>
                 /\ \A r \in 1..prog[i].nres : resType[i][r].dynamic]_vars

\* A successful pass that has finalized three operations.
C10_Witness ==
  /\ pc = "done"
  /\ Cardinality({i \in Ops : Finalized(i)}) >= 3

\* The offsets at which the body of operation o accesses value v, through
\* any of its arguments.
AccessOffsets(o, v) ==
  {o.accesses[k].offset : k \in {k \in 1..Len(o.accesses) : o.operands[o.accesses[k].arg] = v}}

\* The componentwise minimum and maximum of a nonempty set of offsets.
MinOffset(O) == [d \in 1..Len(CHOOSE o \in O : TRUE) |-> SetMin({o[d] : o \in O})]

MaxOffset(O) == [d \in 1..Len(CHOOSE o \in O : TRUE) |-> SetMax({o[d] : o \in O})]

\* The analysis has been constructed.
Analysed == pc = "run"

\* C6: for an apply operation with unroll factor u and an operand value
\* whose accesses have the maximum p, the map holds the positive extent
\* p - u + 1 and the negative extent unchanged, also for a value passed in
\* several operand positions.
C6_UnrollOncePerValue ==
  Analysed =>
     \A j \in Ops : \A v \in Vals :
        (prog[j].kind = "apply" /\ prog[j].unroll # <<>>
           /\ AccessOffsets(prog[j], v) # {}) =>
           /\ extents[j][v].present
           /\ extents[j][v].negative = MinOffset(AccessOffsets(prog[j], v))
           /\ extents[j][v].positive =
                 [d \in 1..Len(prog[j].unroll) |->
                    MaxOffset(AccessOffsets(prog[j], v))[d] - prog[j].unroll[d] + 1]

\* An apply operation with an unroll factor that passes an accessed value in
\* two operand positions has been analysed.
C6_Witness ==
  /\ Analysed
  /\ \E j \in Ops :
        /\ prog[j].unroll # <<>>
        /\ Len(prog[j].operands) = 2
        /\ prog[j].operands[1] = prog[j].operands[2]
        /\ AccessOffsets(prog[j], prog[j].operands[1]) # {}

\* C7: lookupExtent returns a present extent exactly for the pairs of an
\* apply operation and a value that a stencil.access of its body reads.
C7_PresentIffAccessed ==
  Analysed =>
     \A j \in Ops : \A v \in Vals :
        lookupExtent(extents, j, v).present
          <=> (prog[j].kind = "apply" /\ AccessOffsets(prog[j], v) # {})

\* An apply operation with an unroll factor and an operand it never
\* accesses has been analysed.
C7_Witness ==
  /\ Analysed
  /\ \E j \in Ops : \E k \in 1..Len(prog[j].operands) :
        /\ prog[j].unroll # <<>>
        /\ AccessOffsets(prog[j], prog[j].operands[k]) = {}

\* C8: for an apply operation without unroll factor and a value its body
\* accesses, the map holds the componentwise minimum of the offsets as the
\* negative and the componentwise maximum as the positive extent, whatever
\* the order of the accesses and whatever other apply operations access.
C8_ExtentMinMax ==
  Analysed =>
     \A j \in Ops : \A v \in Vals :
        (prog[j].kind = "apply" /\ prog[j].unroll = <<>>
           /\ AccessOffsets(prog[j], v) # {}) =>
           extents[j][v] =
              [present |-> TRUE,
               negative |-> MinOffset(AccessOffsets(prog[j], v)),
               positive |-> MaxOffset(AccessOffsets(prog[j], v))]

\* A value accessed through two body arguments at [1,-1] and then [-1,1]:
\* the extent is [-1,-1] to [1,1], neither of the offsets.
C8_Witness ==
  /\ Analysed
  /\ \E j \in Ops :
        /\ prog[j].unroll = <<>>
        /\ Len(prog[j].operands) = 2
        /\ prog[j].operands[1] = prog[j].operands[2]
        /\ prog[j].accesses = <<[arg |-> 1, offset |-> <<1, -1>>],
                                [arg |-> 2, offset |-> <<-1, 1>>]>>
        /\ extents[j][prog[j].operands[1]].negative = <<-1, -1>>
        /\ extents[j][prog[j].operands[1]].positive = <<1, 1>>

====
